---------------------------- MODULE Spec2Model ----------------------------
(* BMP decoder of src/Util.hpp (BMPConverter): main, BMP::Load,            *)
(* BMP::LoadColorPalleta and BMP::LoadRGBData as a state machine over one  *)
(* input file.  The file is a byte sequence; open/read/lseek/close are     *)
(* modelled by what POSIX says they return.                                *)
EXTENDS Integers, Sequences, FiniteSets, TLC

(* ------------------------------ bounds -------------------------------- *)
MaxWidth == 2
MaxHeight == 2
MaxColors == 2
\* widest image of the geometry runs
MaxGeoWidth == 24
\* further calls of Load on one BMP object
MaxReloads == 1

(* ------------------------- program constants -------------------------- *)
BMP_SIGNATURE == 19778
BMP_BI_RGB == 0
BMP_BITMAPINFOHEADER == 40
BMP_HEADERSIZE == 14
\* sizeof (BMPHeader), packed: 14 bytes of file header + 40 of BID header
SizeofBMPHeader == BMP_HEADERSIZE + BMP_BITMAPINFOHEADER
\* sizeof (RGB), packed: nRed, nGreen, nBlue, nAlpha
SizeofRGB == 4

\* INT32_MAX; every unsigned value of the model stays below 2^31, where
\* uint32_t arithmetic does not wrap
INT32_MAX == 2147483647

(* ------------------------- bytes and integers ------------------------- *)
Min(a, b) == IF a < b THEN a ELSE b

RECURSIVE Pow256(_)
Pow256(n) == IF n = 0 THEN 1 ELSE 256 * Pow256(n - 1)

\* the n bytes of the unsigned value v, least significant first
LEBytes(v, n) == [i \in 1..n |-> (v \div Pow256(i - 1)) % 256]

\* the unsigned value of the n bytes of buf that start at byte offset off
RECURSIVE LEValue(_, _, _)
LEValue(buf, off, n) ==
    IF n = 0 THEN 0
    ELSE buf[off + 1] + 256 * LEValue(buf, off + 1, n - 1)

\* the 4 bytes of the int32_t v, two's complement, least significant first
Int32Bytes(v) ==
    IF v >= 0 THEN LEBytes(v, 4)
    ELSE LET w == (v + INT32_MAX) + 1
         IN  <<w % 256, (w \div 256) % 256, (w \div 65536) % 256, (w \div 16777216) + 128>>

\* the int32_t whose 4 bytes start at byte offset off of buf
Int32Value(buf, off) ==
    IF buf[off + 4] < 128 THEN LEValue(buf, off, 4)
    ELSE (LEValue(buf, off, 3) + 16777216 * (buf[off + 4] - 128) - INT32_MAX) - 1

\* marks a byte the program never initialised (new RGB[n], the tail of a
\* short read); outside 0..255, and no step of the program depends on it
Indeterminate == 256

\* a pointer that holds no array (an allocated array is never empty)
nullptr == << >>

(* ------------------------------ BMPHeader ----------------------------- *)
ZeroHeader ==
    [signature |-> 0, nBitmapByteSize |-> 0, nReserved |-> 0, nDataOffSet |-> 0,
     nBIDHeaderSize |-> 0, nWidth |-> 0, nHeight |-> 0, nColorPanes |-> 0,
     nBitPerPixel |-> 0, nCompressionMethod |-> 0, nRawBitmapSize |-> 0,
     nWidthPixPerMeter |-> 0, nHeightPixPerMeter |-> 0, nColorsInPalleta |-> 0,
     nImportantColors |-> 0]

\* the packed struct as the 54 bytes a little-endian host keeps in memory
HeaderBytes(h) ==
    LEBytes(h.signature, 2) \o LEBytes(h.nBitmapByteSize, 4) \o
    LEBytes(h.nReserved, 4) \o LEBytes(h.nDataOffSet, 4) \o
    LEBytes(h.nBIDHeaderSize, 4) \o Int32Bytes(h.nWidth) \o
    Int32Bytes(h.nHeight) \o LEBytes(h.nColorPanes, 2) \o
    LEBytes(h.nBitPerPixel, 2) \o LEBytes(h.nCompressionMethod, 4) \o
    LEBytes(h.nRawBitmapSize, 4) \o LEBytes(h.nWidthPixPerMeter, 4) \o
    LEBytes(h.nHeightPixPerMeter, 4) \o LEBytes(h.nColorsInPalleta, 4) \o
    LEBytes(h.nImportantColors, 4)

\* the struct fields seen through the 54 bytes of the struct's memory
DecodeHeader(buf) ==
    [signature |-> LEValue(buf, 0, 2),
     nBitmapByteSize |-> LEValue(buf, 2, 4),
     nReserved |-> LEValue(buf, 6, 4),
     nDataOffSet |-> LEValue(buf, 10, 4),
     nBIDHeaderSize |-> LEValue(buf, 14, 4),
     nWidth |-> Int32Value(buf, 18),
     nHeight |-> Int32Value(buf, 22),
     nColorPanes |-> LEValue(buf, 26, 2),
     nBitPerPixel |-> LEValue(buf, 28, 2),
     nCompressionMethod |-> LEValue(buf, 30, 4),
     nRawBitmapSize |-> LEValue(buf, 34, 4),
     nWidthPixPerMeter |-> LEValue(buf, 38, 4),
     nHeightPixPerMeter |-> LEValue(buf, 42, 4),
     nColorsInPalleta |-> LEValue(buf, 46, 4),
     nImportantColors |-> LEValue(buf, 50, 4)]

(* ------------------------------ the file ------------------------------ *)
\* bytes that follow the 54 header bytes: color table and pixel data
BodyLen == SizeofRGB * MaxColors + 4 * MaxWidth * MaxHeight
BodyBytes == [i \in 1..BodyLen |-> (37 * i + 11) % 256]

\* the bytes on disk: header fields, then the body, cut at len bytes
FileBytes(f) == SubSeq(HeaderBytes(f.hdr) \o BodyBytes, 1, f.len)

FullLen == SizeofBMPHeader + BodyLen

Headers ==
    { [ZeroHeader EXCEPT
         !.signature = sig, !.nBitmapByteSize = FullLen, !.nDataOffSet = off,
         !.nBIDHeaderSize = bid, !.nWidth = w, !.nHeight = h,
         !.nColorPanes = 1, !.nBitPerPixel = bpp,
         !.nCompressionMethod = comp, !.nColorsInPalleta = col] :
        sig \in {BMP_SIGNATURE, 19779},
        off \in {0, SizeofBMPHeader + SizeofRGB * MaxColors},
        bid \in {BMP_BITMAPINFOHEADER, 12},
        w \in 1..MaxWidth,
        h \in (0..MaxHeight) \cup {-1},
        bpp \in {0, 1, 2, 4, 8, 16, 24, 32},
        comp \in {BMP_BI_RGB, 1},
        col \in 0..MaxColors }

FileLens == {0, 30, SizeofBMPHeader, SizeofBMPHeader + 6, FullLen}

Files == [hdr : Headers, len : FileLens]

DefaultFile == CHOOSE f \in Files : f.hdr.signature = BMP_SIGNATURE /\ f.len = FullLen

(* ------------------------------ syscalls ------------------------------ *)
\* read (fd, buf, n) without an I/O error: the bytes from the file offset
\* on, at most n, none at or past end of file
ReadBytes(f, at, n) ==
    IF at >= f.len THEN << >> ELSE SubSeq(FileBytes(f), at + 1, Min(at + n, f.len))

\* a buffer of n bytes after a read of data into it
Overlay(old, data) ==
    [i \in 1..Len(old) |-> IF i <= Len(data) THEN data[i] ELSE old[i]]

(* ------------------------------- state -------------------------------- *)
VARIABLES
    nLoads,         \* the calls of Load on the object after main's own
    nArgc,          \* main's argument count
    strFileName,    \* ppszArgs[1]
    file,           \* the file strFileName names
    pc,             \* position in main / Load / LoadColorPalleta / LoadRGBData
    m_bmpHeader,
    m_nFD,
    fdOpen,         \* the descriptor of m_nFD is open in the process
    filePos,        \* the descriptor's file offset
    m_pRGBPalleta,  \* nullptr or the array of RGB records
    m_pRGBData,     \* nullptr or the pixel array
    nCount,         \* loop counter of the palette loop / of the row's read loop
    nRowCount,
    geo,            \* LoadRGBData's locals nBytesPerPixel .. nRowDataSize
    loadResult,     \* what Load returned: "true", "false" ("none" before it returns)
    palResult,      \* what LoadColorPalleta returned
    rgbResult,      \* what LoadRGBData returned
    nDataProcessing,\* the 4 bytes of LoadRGBData's uint32_t read buffer
    exitCode,       \* the process's exit status ("none" while it runs)
    msgs,           \* the VERIFY messages printed, by the check that failed
    io              \* the seeks and reads of the current Load: counters, the
                    \* offsets LoadRGBData sought, the bits PrintBinary has
                    \* printed on the current row's line

vars == <<nLoads, nArgc, strFileName, file, pc, m_bmpHeader, m_nFD, fdOpen, filePos,
          m_pRGBPalleta, m_pRGBData, nCount, nRowCount, geo, loadResult,
          palResult, rgbResult, nDataProcessing, exitCode, msgs, io>>

NoGeo == [nBytesPerPixel |-> 0, nBytesPerRow |-> 0, nPaddingSize |-> 0, nRowDataSize |-> 0]
NoIO == [palSeeks |-> 0, palReads |-> 0, palBytes |-> 0,
         rowSeeks |-> 0, rowReads |-> 0, rowBytes |-> 0,
         rowOffsets |-> << >>, rowOut |-> << >>]

\* the object and the process before main's first statement
Fresh ==
    /\ nLoads = 0
    /\ pc = "main"
    /\ m_bmpHeader = ZeroHeader
    /\ m_nFD = 0
    /\ fdOpen = FALSE
    /\ filePos = 0
    /\ m_pRGBPalleta = nullptr
    /\ m_pRGBData = nullptr
    /\ nCount = 0
    /\ nRowCount = 0
    /\ geo = NoGeo
    /\ loadResult = "none"
    /\ palResult = "none"
    /\ rgbResult = "none"
    /\ nDataProcessing = <<0, 0, 0, 0>>
    /\ exitCode = "none"
    /\ msgs = << >>
    /\ io = NoIO

Init ==
    /\ \/ nArgc = 2 /\ file \in Files /\ strFileName \in {"", "image.bmp"}
          /\ (strFileName = "" => file = DefaultFile)
       \/ nArgc \in {1, 3} /\ file = DefaultFile /\ strFileName = "image.bmp"
    /\ Fresh

\* well-formed files of every supported bit depth, widths up to MaxGeoWidth
GeoFiles ==
    [hdr : { [ZeroHeader EXCEPT
                !.signature = BMP_SIGNATURE, !.nBitmapByteSize = FullLen,
                !.nDataOffSet = SizeofBMPHeader + SizeofRGB * col,
                !.nBIDHeaderSize = BMP_BITMAPINFOHEADER, !.nWidth = w,
                !.nHeight = h, !.nColorPanes = 1, !.nBitPerPixel = bpp,
                !.nColorsInPalleta = col] :
               w \in 1..MaxGeoWidth, h \in {0, 1},
               bpp \in {1, 4, 8, 16, 24}, col \in {0, 1} },
     len : {FullLen}]

\* well-formed 1 x 1 palette images that differ in colorsUsed and length
ReuseFiles ==
    [hdr : { [ZeroHeader EXCEPT
                !.signature = BMP_SIGNATURE, !.nBitmapByteSize = FullLen,
                !.nDataOffSet = SizeofBMPHeader + SizeofRGB * MaxColors,
                !.nBIDHeaderSize = BMP_BITMAPINFOHEADER, !.nWidth = 1,
                !.nHeight = 1, !.nColorPanes = 1, !.nBitPerPixel = 8,
                !.nColorsInPalleta = col] : col \in 0..MaxColors },
     len : {SizeofBMPHeader + 6, FullLen}]

ReuseInit ==
    /\ nArgc = 2 /\ strFileName = "image.bmp" /\ file \in ReuseFiles
    /\ Fresh

GeoInit ==
    /\ nArgc = 2 /\ strFileName = "image.bmp" /\ file \in GeoFiles
    /\ Fresh

(* ------------------------------ geometry ------------------------------ *)
\* RoundUp of the double nNum / nDen (nNum >= 0, nDen > 0)
\* mutant of RoundUp: the cast alone, without the step to the next integer
RoundUp_Truncates(nNum, nDen) == nNum \div nDen

RoundUp(nNum, nDen) ==
    LET nFloorValue == nNum \div nDen
    IN  IF nNum = nFloorValue * nDen THEN nFloorValue ELSE nFloorValue + 1

\* mutant of PaddingSize: without the test for a row that is aligned already
PaddingSize_AlwaysPads(nBytesPerRow) == 4 - (nBytesPerRow % 4)

\* nPaddingSize of a row of nBytesPerRow bytes
PaddingSize(nBytesPerRow) ==
    IF nBytesPerRow % 4 > 0 THEN 4 - (nBytesPerRow % 4) ELSE 0

\* the locals LoadRGBData derives from the header
Geometry(h) ==
    LET nBytesPerPixel == IF h.nBitPerPixel < 8 THEN 1 ELSE (h.nBitPerPixel \div 8) % 256
        nBytesPerRow == RoundUp(h.nWidth * h.nBitPerPixel, 8)
        nPaddingSize == PaddingSize(nBytesPerRow)
    IN  [nBytesPerPixel |-> nBytesPerPixel,
         nBytesPerRow |-> nBytesPerRow,
         nPaddingSize |-> nPaddingSize,
         nRowDataSize |-> nBytesPerRow + nPaddingSize]

\* what PrintBinary prints for one byte: its 8 bits, nCountb = 0..7, the
\* bit 1 << (7 - nCountb) first
ByteBits(nValue) == [k \in 1..8 |-> (nValue \div (2 ^ (8 - k))) % 2]

\* what PrintBinary (pBuffer, nSize) prints, as a sequence of 0 and 1
RECURSIVE PrintBinary(_, _)
PrintBinary(pBuffer, nSize) ==
    IF nSize = 0 THEN << >>
    ELSE PrintBinary(pBuffer, nSize - 1) \o ByteBits(pBuffer[nSize])

ABS(x) == IF x < 0 THEN x * (-1) ELSE x

(* --------------------------- header checks ---------------------------- *)
\* mutant of SignatureOK: only the second character, 'M', is compared
SignatureOK_SecondCharOnly(h) == h.signature \div 256 = BMP_SIGNATURE \div 256

SignatureOK(h) == h.signature = BMP_SIGNATURE

\* mutant of CompressionOK: >= for ==, which no unsigned value fails
CompressionOK_AtLeast(h) == h.nCompressionMethod >= BMP_BI_RGB

CompressionOK(h) == h.nCompressionMethod = BMP_BI_RGB

(* ------------------------------ actions ------------------------------- *)
\* VERIFYFALSE failed inside Load: print the message, return false
LoadFails(m) ==
    /\ msgs' = Append(msgs, m)
    /\ loadResult' = "false"
    /\ pc' = "LoadReturned"

\* main: the argument count check, then BMP bmp and the call of Load
MainCheckArgs ==
    /\ pc = "main"
    /\ IF nArgc # 2
       THEN /\ msgs' = Append(msgs, "usage")
            /\ exitCode' = 1
            /\ pc' = "exited"
       ELSE /\ pc' = "Load"
            /\ UNCHANGED <<msgs, exitCode>>
    /\ UNCHANGED <<nLoads, nArgc, strFileName, file, m_bmpHeader, m_nFD, fdOpen, filePos,
                   m_pRGBPalleta, m_pRGBData, nCount, nRowCount, geo, loadResult,
                   palResult, rgbResult, nDataProcessing, io>>

\* Load: the filename check, memset of the header, open
LoadOpen ==
    /\ pc = "Load"
    /\ IF Len(strFileName) = 0
       THEN /\ LoadFails("filename")
            /\ UNCHANGED <<m_bmpHeader, m_nFD, fdOpen, filePos>>
       ELSE /\ m_bmpHeader' = ZeroHeader
            /\ \E opened \in BOOLEAN :
                 IF opened
                 THEN /\ m_nFD' = 3
                      /\ fdOpen' = TRUE
                      /\ filePos' = 0
                      /\ pc' = "readHeader"
                      /\ UNCHANGED <<msgs, loadResult>>
                 ELSE /\ m_nFD' = -1
                      /\ LoadFails("open")
                      /\ UNCHANGED <<fdOpen, filePos>>
    /\ UNCHANGED <<nLoads, nArgc, strFileName, file, m_pRGBPalleta, m_pRGBData, nCount,
                   nRowCount, geo, palResult, rgbResult, nDataProcessing,
                   exitCode, io>>

\* Load: read of sizeof (BMPHeader) bytes into the header; only -1 fails
LoadReadHeader ==
    /\ pc = "readHeader"
    /\ \E ioError \in BOOLEAN :
         IF ioError
         THEN /\ LoadFails("readHeader")
              /\ UNCHANGED <<m_bmpHeader, filePos>>
         ELSE LET data == ReadBytes(file, filePos, SizeofBMPHeader)
              IN  /\ m_bmpHeader' = DecodeHeader(Overlay(HeaderBytes(m_bmpHeader), data))
                  /\ filePos' = filePos + Len(data)
                  /\ pc' = "printHeader"
                  /\ UNCHANGED <<msgs, loadResult>>
    /\ UNCHANGED <<nLoads, nArgc, strFileName, file, m_nFD, fdOpen, m_pRGBPalleta, m_pRGBData,
                   nCount, nRowCount, geo, palResult, rgbResult, nDataProcessing,
                   exitCode, io>>

\* Load: the diagnostic print of the header, with nBitmapByteSize / nHeight:
\* an integer division by zero is undefined, it traps (SIGFPE) or yields
\* some quotient that is only printed
LoadPrintHeader ==
    /\ pc = "printHeader"
    /\ \E traps \in BOOLEAN :
         IF m_bmpHeader.nHeight = 0 /\ traps
         THEN /\ pc' = "crashed"
              /\ exitCode' = "SIGFPE"
         ELSE /\ pc' = "verifyHeader"
              /\ UNCHANGED exitCode
    /\ UNCHANGED <<nLoads, nArgc, strFileName, file, m_bmpHeader, m_nFD, fdOpen, filePos,
                   m_pRGBPalleta, m_pRGBData, nCount, nRowCount, geo, loadResult,
                   palResult, rgbResult, nDataProcessing, msgs, io>>

\* Load: the two VERIFYFALSE of the header, signature then compression
LoadVerifyHeader ==
    /\ pc = "verifyHeader"
    /\ IF ~SignatureOK(m_bmpHeader) THEN LoadFails("signature")
       ELSE IF ~CompressionOK(m_bmpHeader) THEN LoadFails("compression")
       ELSE /\ pc' = "LoadColorPalleta"
            /\ UNCHANGED <<msgs, loadResult>>
    /\ UNCHANGED <<nLoads, nArgc, strFileName, file, m_bmpHeader, m_nFD, fdOpen, filePos,
                   m_pRGBPalleta, m_pRGBData, nCount, nRowCount, geo, palResult,
                   rgbResult, nDataProcessing, exitCode, io>>

\* LoadColorPalleta returns r to Load, which goes on to LoadRGBData
PalletaReturns(r) ==
    /\ palResult' = r
    /\ pc' = "LoadRGBData"

\* LoadColorPalleta up to its loop: signature check, lseek to the color
\* table, delete[] and new RGB[nColorsInPalleta]
LoadColorPalleta ==
    /\ pc = "LoadColorPalleta"
    /\ IF ~SignatureOK(m_bmpHeader)
       THEN /\ msgs' = Append(msgs, "palNoImage")
            /\ PalletaReturns("false")
            /\ UNCHANGED <<filePos, m_pRGBPalleta, nCount, io>>
       ELSE IF m_bmpHeader.nColorsInPalleta > 0
       THEN LET nPalleteOffset == BMP_HEADERSIZE + m_bmpHeader.nBIDHeaderSize
                nReturn == IF nPalleteOffset < 0 THEN -1 ELSE nPalleteOffset
            IN  /\ io' = [io EXCEPT !.palSeeks = @ + 1]
                /\ filePos' = IF nReturn < 0 THEN filePos ELSE nReturn
                /\ IF ~(nReturn > 0)
                   THEN /\ msgs' = Append(msgs, "palSeek")
                        /\ PalletaReturns("false")
                        /\ UNCHANGED <<m_pRGBPalleta, nCount>>
                   ELSE /\ m_pRGBPalleta' =
                              [i \in 1..m_bmpHeader.nColorsInPalleta |->
                                  [nRed |-> Indeterminate, nGreen |-> Indeterminate,
                                   nBlue |-> Indeterminate, nAlpha |-> Indeterminate]]
                        /\ nCount' = 0
                        /\ pc' = "palletaLoop"
                        /\ UNCHANGED <<msgs, palResult>>
       ELSE /\ PalletaReturns("true")
            /\ UNCHANGED <<msgs, filePos, m_pRGBPalleta, nCount, io>>
    /\ UNCHANGED <<nLoads, nArgc, strFileName, file, m_bmpHeader, m_nFD, fdOpen, m_pRGBData,
                   nRowCount, geo, loadResult, rgbResult, nDataProcessing, exitCode>>

\* the RGB record whose memory holds the 4 bytes buf
RGBOfBytes(buf) == [nRed |-> buf[1], nGreen |-> buf[2], nBlue |-> buf[3], nAlpha |-> buf[4]]
BytesOfRGB(c) == <<c.nRed, c.nGreen, c.nBlue, c.nAlpha>>

\* LoadColorPalleta: one turn of the loop, a read of sizeof (RGB) bytes
\* into m_pRGBPalleta[nCount]; a return of 0 or -1 fails
LoadColorPalletaLoop ==
    /\ pc = "palletaLoop"
    /\ IF nCount < m_bmpHeader.nColorsInPalleta
       THEN \E ioError \in BOOLEAN :
              LET data == IF ioError THEN << >> ELSE ReadBytes(file, filePos, SizeofRGB)
                  nReturn == IF ioError THEN -1 ELSE Len(data)
              IN  /\ io' = [io EXCEPT !.palReads = @ + 1, !.palBytes = @ + Len(data)]
                  /\ filePos' = filePos + Len(data)
                  /\ m_pRGBPalleta' =
                        [m_pRGBPalleta EXCEPT
                            ![nCount + 1] = RGBOfBytes(Overlay(BytesOfRGB(@), data))]
                  /\ IF ~(nReturn > 0)
                     THEN /\ msgs' = Append(msgs, "palRead")
                          /\ PalletaReturns("false")
                          /\ UNCHANGED nCount
                     ELSE /\ nCount' = nCount + 1
                          /\ UNCHANGED <<msgs, palResult, pc>>
       ELSE /\ PalletaReturns("true")
            /\ UNCHANGED <<msgs, filePos, m_pRGBPalleta, nCount, io>>
    /\ UNCHANGED <<nLoads, nArgc, strFileName, file, m_bmpHeader, m_nFD, fdOpen, m_pRGBData,
                   nRowCount, geo, loadResult, rgbResult, nDataProcessing, exitCode>>

\* LoadRGBData returns r to Load, which goes on to close
RGBDataReturns(r) ==
    /\ rgbResult' = r
    /\ pc' = "close"

\* LoadRGBData up to its loop: signature check and the row geometry
LoadRGBData ==
    /\ pc = "LoadRGBData"
    /\ IF ~SignatureOK(m_bmpHeader)
       THEN /\ msgs' = Append(msgs, "rgbNoImage")
            /\ RGBDataReturns("false")
            /\ UNCHANGED <<geo, nRowCount>>
       ELSE /\ geo' = Geometry(m_bmpHeader)
            /\ nRowCount' = 0
            /\ pc' = "rowLoop"
            /\ UNCHANGED <<msgs, rgbResult>>
    /\ UNCHANGED <<nLoads, nArgc, strFileName, file, m_bmpHeader, m_nFD, fdOpen, filePos,
                   m_pRGBPalleta, m_pRGBData, nCount, loadResult, palResult,
                   nDataProcessing, exitCode, io>>

\* LoadRGBData: the head of one turn of the row loop, the lseek to the row
LoadRGBDataRow ==
    /\ pc = "rowLoop"
    /\ IF nRowCount < ABS(m_bmpHeader.nHeight)
       THEN LET nReturn == m_bmpHeader.nDataOffSet + geo.nRowDataSize * nRowCount
            IN  /\ io' = [io EXCEPT !.rowSeeks = @ + 1,
                                     !.rowOffsets = Append(@, nReturn),
                                     !.rowOut = << >>]
                /\ filePos' = nReturn
                /\ IF ~(nReturn > 0)
                   THEN /\ msgs' = Append(msgs, "rowSeek")
                        /\ RGBDataReturns("false")
                        /\ UNCHANGED nCount
                   ELSE /\ nCount' = 0
                        /\ pc' = "rowRead"
                        /\ UNCHANGED <<msgs, rgbResult>>
       ELSE /\ RGBDataReturns("true")
            /\ UNCHANGED <<msgs, filePos, nCount, io>>
    /\ UNCHANGED <<nLoads, nArgc, strFileName, file, m_bmpHeader, m_nFD, fdOpen, m_pRGBPalleta,
                   m_pRGBData, nRowCount, geo, loadResult, palResult, nDataProcessing,
                   exitCode>>

\* LoadRGBData: one turn of the inner loop, a read of nBytesPerPixel bytes
\* into nDataProcessing; only -1 fails.  Past the last turn, the next row
LoadRGBDataRead ==
    /\ pc = "rowRead"
    /\ IF nCount < geo.nBytesPerRow
       THEN \E ioError \in BOOLEAN :
              LET data == IF ioError THEN << >> ELSE ReadBytes(file, filePos, geo.nBytesPerPixel)
                  nReturn == IF ioError THEN -1 ELSE Len(data)
                  buf == Overlay(<<0, 0, 0, 0>>, data)
              IN  /\ io' = [io EXCEPT
                              !.rowReads = @ + 1, !.rowBytes = @ + Len(data),
                              !.rowOut = IF nReturn >= 0
                                         THEN @ \o PrintBinary(buf, geo.nBytesPerPixel)
                                         ELSE @]
                  /\ filePos' = filePos + Len(data)
                  /\ nDataProcessing' = buf
                  /\ IF ~(nReturn >= 0)
                     THEN /\ msgs' = Append(msgs, "rowRead")
                          /\ RGBDataReturns("false")
                          /\ UNCHANGED nCount
                     ELSE /\ nCount' = nCount + 1
                          /\ UNCHANGED <<msgs, rgbResult, pc>>
              /\ UNCHANGED nRowCount
       ELSE /\ nRowCount' = nRowCount + 1
            /\ pc' = "rowLoop"
            /\ UNCHANGED <<msgs, rgbResult, filePos, nCount, nDataProcessing, io>>
    /\ UNCHANGED <<nLoads, nArgc, strFileName, file, m_bmpHeader, m_nFD, fdOpen, m_pRGBPalleta,
                   m_pRGBData, geo, loadResult, palResult, exitCode>>

\* Load: close (m_nFD); return true
LoadClose ==
    /\ pc = "close"
    /\ fdOpen' = FALSE
    /\ loadResult' = "true"
    /\ pc' = "LoadReturned"
    /\ UNCHANGED <<nLoads, nArgc, strFileName, file, m_bmpHeader, m_nFD, filePos, m_pRGBPalleta,
                   m_pRGBData, nCount, nRowCount, geo, palResult, rgbResult,
                   nDataProcessing, exitCode, msgs, io>>

\* main: Load's result is dropped; exit (0)
MainExit ==
    /\ pc = "LoadReturned"
    /\ exitCode' = 0
    /\ pc' = "exited"
    /\ UNCHANGED <<nLoads, nArgc, strFileName, file, m_bmpHeader, m_nFD, fdOpen, filePos,
                   m_pRGBPalleta, m_pRGBData, nCount, nRowCount, geo, loadResult,
                   palResult, rgbResult, nDataProcessing, msgs, io>>

Next ==
    \/ MainCheckArgs
    \/ LoadOpen
    \/ LoadReadHeader
    \/ LoadPrintHeader
    \/ LoadVerifyHeader
    \/ LoadColorPalleta
    \/ LoadColorPalletaLoop
    \/ LoadRGBData
    \/ LoadRGBDataRow
    \/ LoadRGBDataRead
    \/ LoadClose
    \/ MainExit

Spec == Init /\ [][Next]_vars

\* a caller's further call of Load on the object main's call has used: the
\* members stay as that call left them, Load's locals and return value are
\* the new call's
LoadAgain ==
    /\ pc = "LoadReturned"
    /\ nLoads < MaxReloads
    /\ nLoads' = nLoads + 1
    /\ file' \in ReuseFiles
    /\ pc' = "Load"
    /\ nCount' = 0
    /\ nRowCount' = 0
    /\ geo' = NoGeo
    /\ nDataProcessing' = <<0, 0, 0, 0>>
    /\ loadResult' = "none"
    /\ palResult' = "none"
    /\ rgbResult' = "none"
    /\ msgs' = << >>
    /\ io' = NoIO
    /\ UNCHANGED <<nArgc, strFileName, m_bmpHeader, m_nFD, fdOpen, filePos,
                   m_pRGBPalleta, m_pRGBData, exitCode>>

ReuseNext == Next \/ LoadAgain

\* one BMP object decoding up to 1 + MaxReloads files of ReuseFiles
ReuseSpec == ReuseInit /\ [][ReuseNext]_vars

\* the same program over GeoFiles
GeoSpec == GeoInit /\ [][Next]_vars

(* ------------------------- shared vocabulary -------------------------- *)
\* Load has returned to main
LoadHasReturned == loadResult # "none"

\* a seek or a read into the color table or the pixel data has happened
TouchedPalette == io.palSeeks + io.palReads > 0
TouchedPixels == io.rowSeeks + io.rowReads > 0

\* the pixel array holds one populated RGB per pixel of the header
BufferComplete ==
    /\ m_pRGBData # nullptr
    /\ Len(m_pRGBData) = m_bmpHeader.nWidth * ABS(m_bmpHeader.nHeight)
    /\ \A i \in 1..Len(m_pRGBData) :
         \A ch \in {"nRed", "nGreen", "nBlue"} : m_pRGBData[i][ch] # Indeterminate

\* nothing of a decode is left behind: no pixel array, no palette
NoOutput == m_pRGBData = nullptr /\ m_pRGBPalleta = nullptr

SupportedBitDepths == {1, 4, 8, 16, 24}

(* ------------------------------ claims -------------------------------- *)
\* C1: when Load has returned, either it returned true with a complete
\* width x height pixel buffer, or it returned false after exactly one
\* error with no pixel buffer and no palette left behind.
C1_AllOrNothing ==
    LoadHasReturned =>
        \/ loadResult = "true" /\ BufferComplete
        \/ loadResult = "false" /\ Len(msgs) = 1 /\ NoOutput

\* C2: a failed LoadColorPalleta or LoadRGBData makes Load fail, and nothing
\* runs after the failed step: once the palette load has failed no row is
\* sought or read, and Load never returns true.
C2_FailureAborts ==
    /\ (palResult = "false" \/ rgbResult = "false") => loadResult # "true"
    /\ palResult = "false" => ~TouchedPixels /\ rgbResult = "none"

\* C3: once Load has returned, on whatever path, the descriptor it opened
\* is closed.
C3_HandleClosedOnEveryExit == LoadHasReturned => ~fdOpen

\* C4: a seek or read into the color table or the pixel data happens only
\* with a header whose signature, infoHeaderSize and compression are valid.
C4_ValidatedBeforeAnyRead ==
    (TouchedPalette \/ TouchedPixels) =>
        /\ m_bmpHeader.signature = BMP_SIGNATURE
        /\ m_bmpHeader.nBIDHeaderSize = BMP_BITMAPINFOHEADER
        /\ m_bmpHeader.nCompressionMethod = BMP_BI_RGB

C6_InfoHeaderSizeRejected ==
    m_bmpHeader.nBIDHeaderSize # BMP_BITMAPINFOHEADER =>
        loadResult # "true" /\ io.palSeeks = 0

C8_BitDepthRejected ==
    (filePos > 0 /\ m_bmpHeader.nBitPerPixel \notin SupportedBitDepths) =>
        loadResult # "true" /\ geo = NoGeo /\ ~TouchedPixels

\* C9: Load returns true only for a file that holds the 54 header bytes,
\* the 4 x N bytes of the color table it loads, and the
\* dataOffset + rowStride x height bytes of its rows.
C9_ShortReadFails ==
    loadResult = "true" =>
        /\ file.len >= SizeofBMPHeader
        /\ m_bmpHeader.nColorsInPalleta > 0 =>
             file.len >= BMP_HEADERSIZE + m_bmpHeader.nBIDHeaderSize
                            + SizeofRGB * m_bmpHeader.nColorsInPalleta
        /\ ABS(m_bmpHeader.nHeight) > 0 =>
             file.len >= m_bmpHeader.nDataOffSet
                            + geo.nRowDataSize * ABS(m_bmpHeader.nHeight)

\* C10: the process exits nonzero when the argument count is not 2, and
\* exits zero only after Load returned true.
C10_ExitStatus ==
    pc = "exited" =>
        /\ nArgc # 2 => exitCode # 0
        /\ exitCode = 0 => loadResult = "true"

\* the row geometry has been computed for a header the claims cover
GeometryComputed ==
    /\ geo # NoGeo
    /\ m_bmpHeader.nWidth > 0
    /\ m_bmpHeader.nBitPerPixel \in SupportedBitDepths

\* C11: for every width > 0 and bitDepth in {1, 4, 8, 16, 24} the row
\* decoder's nRowDataSize = nBytesPerRow + nPaddingSize is a multiple of 4
\* and nPaddingSize lies in 0..3.
C11_RowStrideMultipleOf4 ==
    GeometryComputed =>
        /\ geo.nRowDataSize = geo.nBytesPerRow + geo.nPaddingSize
        /\ geo.nRowDataSize % 4 = 0
        /\ geo.nPaddingSize \in 0..3

\* C11's case: a row that is aligned without padding (4 pixels of 8 bits)
C11_Witness ==
    /\ GeometryComputed
    /\ m_bmpHeader.nWidth = 4 /\ m_bmpHeader.nBitPerPixel = 8
    /\ geo.nBytesPerRow = 4 /\ geo.nPaddingSize = 0 /\ geo.nRowDataSize = 4

\* C12: the computed geometry equals the reference: bytesPerRow =
\* ceil (width * bitDepth / 8), padding = (4 - bytesPerRow mod 4) mod 4,
\* rowStride = bytesPerRow + padding; width 3 at depth 24 gives 9, 3, 12 and
\* width 21 at depth 1 gives 3, 1, 4.
C12_GeometryMatchesReference ==
    GeometryComputed =>
        LET bits == m_bmpHeader.nWidth * m_bmpHeader.nBitPerPixel
            bytesPerRow == (bits + 7) \div 8
            padding == (4 - (bytesPerRow % 4)) % 4
        IN  /\ geo.nBytesPerRow = bytesPerRow
            /\ geo.nPaddingSize = padding
            /\ geo.nRowDataSize = bytesPerRow + padding
            /\ (m_bmpHeader.nWidth = 3 /\ m_bmpHeader.nBitPerPixel = 24) =>
                 <<geo.nBytesPerRow, geo.nPaddingSize, geo.nRowDataSize>> = <<9, 3, 12>>
            /\ (m_bmpHeader.nWidth = 21 /\ m_bmpHeader.nBitPerPixel = 1) =>
                 <<geo.nBytesPerRow, geo.nPaddingSize, geo.nRowDataSize>> = <<3, 1, 4>>

\* C12's case: the 21 pixel wide 1-bit row, where the bit count is not a
\* multiple of 8
C12_Witness ==
    /\ GeometryComputed
    /\ m_bmpHeader.nWidth = 21 /\ m_bmpHeader.nBitPerPixel = 1
    /\ geo.nBytesPerRow = 3 /\ geo.nPaddingSize = 1 /\ geo.nRowDataSize = 4

(* ------------- the decoded image, as the format defines it ------------- *)
\* the byte at offset off of the file (off < f.len)
FileByte(f, off) == FileBytes(f)[off + 1]

\* offset of file row r of the image of header h
RowOffset(h, r) == h.nDataOffSet + r * Geometry(h).nRowDataSize

\* every row of the image of header h lies inside the file
RowsInFile(f, h) == f.len >= RowOffset(h, ABS(h.nHeight))

\* the three bytes of pixel x of file row r of a 24-bit image, in file order
Group24(f, h, r, x) ==
    [k \in 1..3 |-> FileByte(f, RowOffset(h, r) + 3 * x + (k - 1))]

\* sample x of file row r of a 1, 4 or 8-bit image, most significant bits first
Sample(f, h, r, x) ==
    LET bpp == h.nBitPerPixel
        byte == FileByte(f, RowOffset(h, r) + (x * bpp) \div 8)
        used == (x * bpp) % 8
    IN  (byte \div (2 ^ (8 - bpp - used))) % (2 ^ bpp)

\* number of entries of the loaded palette
PaletteLength == IF m_pRGBPalleta = nullptr THEN 0 ELSE Len(m_pRGBPalleta)

\* the file is a complete uncompressed bottom-up image of a supported depth
\* with a 40-byte info header, and its header has been read
WellFormedImage ==
    /\ m_bmpHeader = file.hdr
    /\ SignatureOK(m_bmpHeader) /\ CompressionOK(m_bmpHeader)
    /\ m_bmpHeader.nBIDHeaderSize = BMP_BITMAPINFOHEADER
    /\ m_bmpHeader.nBitPerPixel \in SupportedBitDepths
    /\ m_bmpHeader.nWidth >= 1 /\ m_bmpHeader.nHeight >= 1
    /\ m_bmpHeader.nDataOffSet >=
            SizeofBMPHeader + SizeofRGB * m_bmpHeader.nColorsInPalleta
    /\ RowsInFile(file, m_bmpHeader)

\* Load returned true for a complete 24-bit image whose rows were all read
Decoded24 ==
    /\ loadResult = "true" /\ rgbResult = "true"
    /\ WellFormedImage
    /\ m_bmpHeader.nBitPerPixel = 24

\* C13: after a successful decode of a 24-bit image of height >= 1, pixel x
\* of file row r is found in output row height - 1 - r at column x (the
\* three channel values are those of the file group, in whatever order).
C13_VerticalRemap ==
    Decoded24 =>
        /\ m_pRGBData # nullptr
        /\ \A r \in 0..(m_bmpHeader.nHeight - 1) : \A x \in 0..(m_bmpHeader.nWidth - 1) :
             LET out == m_pRGBData[(m_bmpHeader.nHeight - 1 - r) * m_bmpHeader.nWidth + x + 1]
                 g == Group24(file, m_bmpHeader, r, x)
             IN  {out.nRed, out.nGreen, out.nBlue} = {g[1], g[2], g[3]}

\* C14: for bitDepth <= 8 Load does not return true, with the palette and
\* the rows read, for an image that names its colors and has a sample that
\* is no index of the loaded palette, and the palette loop never stands at
\* an entry outside the array.
C14_PaletteIndexInRange ==
    /\ (pc = "palletaLoop" /\ nCount < m_bmpHeader.nColorsInPalleta) =>
            nCount + 1 \in 1..PaletteLength
    /\ (/\ loadResult = "true" /\ palResult = "true" /\ rgbResult = "true"
        /\ WellFormedImage
        /\ m_bmpHeader.nBitPerPixel \in {1, 4, 8}
        /\ m_bmpHeader.nColorsInPalleta > 0) =>
            \A r \in 0..(m_bmpHeader.nHeight - 1) : \A x \in 0..(m_bmpHeader.nWidth - 1) :
                Sample(file, m_bmpHeader, r, x) < PaletteLength

\* C15: after a successful decode of a 24-bit image every pixel of the
\* output is (Red = b2, Green = b1, Blue = b0) of a 3-byte group (b0, b1, b2)
\* of the file.
C15_ChannelOrder24 ==
    Decoded24 =>
        /\ m_pRGBData # nullptr
        /\ \A i \in 1..Len(m_pRGBData) :
             \E r \in 0..(m_bmpHeader.nHeight - 1) : \E x \in 0..(m_bmpHeader.nWidth - 1) :
                LET g == Group24(file, m_bmpHeader, r, x)
                IN  /\ m_pRGBData[i].nRed = g[3]
                    /\ m_pRGBData[i].nGreen = g[2]
                    /\ m_pRGBData[i].nBlue = g[1]

\* C16: what a Load that returned true leaves in the object comes from its
\* own file: the header is the one read from it, and a palette is there only
\* when this Load sought and read it.
C16_DecodesIndependent ==
    loadResult = "true" =>
        /\ m_bmpHeader = file.hdr
        /\ m_pRGBPalleta # nullptr => TouchedPalette

\* C17: the rows of a well-formed image are sought in ascending order, row
\* r at dataOffset + r * rowStride, each once, and no more than rowStride
\* bytes are read from a row.
C17_RowIteration ==
    (WellFormedImage /\ geo # NoGeo) =>
        /\ Len(io.rowOffsets) <= ABS(m_bmpHeader.nHeight)
        /\ \A i \in 1..Len(io.rowOffsets) :
             io.rowOffsets[i] = m_bmpHeader.nDataOffSet + (i - 1) * geo.nRowDataSize
        /\ pc = "rowRead" =>
             /\ Len(io.rowOffsets) = nRowCount + 1
             /\ filePos <= io.rowOffsets[nRowCount + 1] + geo.nRowDataSize

\* C18: for bitDepth 1 and 4, what a row of a well-formed image has yielded
\* at its end is its width samples, most significant bits first, and
\* nothing else.
C18_SubByteUnpacking ==
    (/\ pc = "rowRead" /\ nCount = geo.nBytesPerRow
     /\ WellFormedImage
     /\ m_bmpHeader.nBitPerPixel \in {1, 4}) =>
        io.rowOut = [x \in 1..m_bmpHeader.nWidth |->
                        Sample(file, m_bmpHeader, nRowCount, x - 1)]

\* C19: when LoadColorPalleta has returned true for a well-formed image,
\* the palette has colorsUsed entries (2 ^ bitDepth when colorsUsed is 0)
\* for bitDepth <= 8 and is empty for bitDepth > 8.
C19_PaletteLength ==
    (palResult = "true" /\ WellFormedImage) =>
        PaletteLength =
            IF m_bmpHeader.nBitPerPixel > 8 THEN 0
            ELSE IF m_bmpHeader.nColorsInPalleta # 0 THEN m_bmpHeader.nColorsInPalleta
            ELSE 2 ^ m_bmpHeader.nBitPerPixel

\* C20: palette entry i of a well-formed image, read from offset
\* 14 + infoHeaderSize + 4 * i, holds the file's third byte as red, the
\* second as green and the first as blue.
C20_PaletteEntryOrder ==
    \A i \in 1..PaletteLength :
        LET at == BMP_HEADERSIZE + m_bmpHeader.nBIDHeaderSize + SizeofRGB * (i - 1)
        IN  (/\ pc = "palletaLoop" => i <= nCount
             /\ pc # "palletaLoop" => palResult = "true"
             /\ WellFormedImage) =>
                /\ m_pRGBPalleta[i].nBlue = FileByte(file, at)
                /\ m_pRGBPalleta[i].nGreen = FileByte(file, at + 1)
                /\ m_pRGBPalleta[i].nRed = FileByte(file, at + 2)

\* C21: the divisor of the diagnostic nBitmapByteSize / nHeight, printed
\* before the header is validated, is never zero, and Load never stops at
\* that division: it always goes on to its validation checks.
C21_NoDivisionByZero ==
    /\ pc = "printHeader" => m_bmpHeader.nHeight # 0
    /\ pc # "crashed"

=============================================================================
